---- MODULE Spec2Model ----
(***************************************************************************)
(* Model of the Ultimate Guitar top-tabs cache: scraper.py (live merge,    *)
(* freshness check, atomic save), merge_ug.py (cross-file dedup) and       *)
(* server.py (threaded HTTP wrapper around scrape_all and the cache file). *)
(***************************************************************************)
EXTENDS Integers, Sequences, FiniteSets, TLC

(***************************************************************************)
(* Bounds of the model.                                                    *)
(***************************************************************************)
NumIds == 2        \* tab ids 1..NumIds appear in the listings
MaxTabs == 1       \* entries of one listing's "tabs" array
MaxHitsList == 2   \* entries of one listing's "hits" array
NumTypes == 2      \* how many keys of TYPE_PARAM a run iterates over
MaxHits == 2       \* hits values 0..MaxHits
MaxRating == 2     \* rating values 1..MaxRating (floats, scaled)
MaxCalls == 2      \* calls of scrape_all in one behaviour, one after the other

(***************************************************************************)
(* Optional values: None is Python's None, Some(v) a present value.        *)
(***************************************************************************)
None == <<>>
Some(v) == <<v>>
Val(o) == o[1]

Ids == 1..NumIds

\* TYPE_PARAM.keys() in insertion order
TYPE_PARAM == <<"chords", "tab", "guitar_pro", "ukulele", "bass">>
types == SubSeq(TYPE_PARAM, 1, IF NumTypes < 5 THEN NumTypes ELSE 5)

TABS_BASE == "https://tabs.ultimate-guitar.com"

\* f"{TABS_BASE}/tab/{tid_i}"
Url(tid_i) == <<TABS_BASE, "tab", tid_i>>

\* A JSON scalar as it arrives in a listing: null, a number, or something
\* int()/float() rejects.
RawNull == [k |-> "null", v |-> 0]
RawNum(n) == [k |-> "num", v |-> n]
RawBad == [k |-> "bad", v |-> 0]

\* int(x) / float(x): Some(value), or None when the conversion raises
ToNum(raw) == IF raw.k = "num" THEN Some(raw.v) ELSE None

\* (s or "").strip(): whitespace-only names become empty
Strip(s) == IF s = " " THEN "" ELSE s

\* dataclass Row
Row(artist, song, type, url, hits, rating, votes) ==
  [artist |-> artist, song |-> song, type |-> type, url |-> url,
   hits |-> hits, rating |-> rating, votes |-> votes]

(***************************************************************************)
(* A dict keyed by url is a sequence of rows in insertion order.           *)
(***************************************************************************)
\* d.get(url): the position of the row with that url, 0 when absent
DictGet(d, url) ==
  IF \E i \in 1..Len(d) : d[i].url = url
    THEN CHOOSE i \in 1..Len(d) : d[i].url = url /\ \A j \in 1..(i-1) : d[j].url # url
    ELSE 0

\* d[url] = row: replaces the value of an existing key, appends a new key
DictSet(d, url, row) ==
  IF DictGet(d, url) = 0 THEN Append(d, row)
  ELSE [d EXCEPT ![DictGet(d, url)] = row]

(***************************************************************************)
(* Listing payloads.  An entry of the "tabs" array and of the "hits" array *)
(* of the JSON embedded in a listing page.                                 *)
(***************************************************************************)
RawIds == {RawNull} \cup {RawNum(i) : i \in Ids}
Names == {[artist_name |-> "", song_name |-> "S"], [artist_name |-> "A", song_name |-> " "],
          [artist_name |-> "A", song_name |-> "S"], [artist_name |-> "B", song_name |-> "S"]}
RawRatings == {RawNull} \cup {RawNum(r) : r \in 1..MaxRating}
RawVotes == {RawNull, RawBad, RawNum(1)}
RawHits == {RawBad} \cup {RawNum(h) : h \in 0..MaxHits}

TabEntry(id, nm, rating, votes) ==
  [isdict |-> TRUE, id |-> id, artist_name |-> nm.artist_name, song_name |-> nm.song_name,
   rating |-> rating, votes |-> votes]

NotDictTab ==
  [isdict |-> FALSE, id |-> RawNull, artist_name |-> "", song_name |-> "",
   rating |-> RawNull, votes |-> RawNull]

\* entries as the hits-ordered loop reads them (it never looks at rating/votes)
HitsTabEntries ==
  {NotDictTab} \cup {TabEntry(id, nm, RawNull, RawNull) : id \in RawIds, nm \in Names}

RatingTabEntries ==
  {NotDictTab} \cup
  {TabEntry(id, nm, r, v) : id \in RawIds, nm \in Names, r \in RawRatings, v \in RawVotes}

HitsEntries ==
  {[isdict |-> FALSE, id |-> RawNull, hits |-> RawBad]} \cup
  [isdict : {TRUE}, id : RawIds, hits : RawHits]

EmptyHits == [i \in Ids |-> None]

\* one iteration of "for h in hits_list": hits_by_id[tid_i] = hv_i
HitsListStep(hb, h) ==
  IF ~h.isdict THEN hb
  ELSE IF ToNum(h.id) = None \/ ToNum(h.hits) = None THEN hb
  ELSE [hb EXCEPT ![Val(ToNum(h.id))] = ToNum(h.hits)]

\* one iteration of "for t in tabs_hits" on the mapping rows
HitsStep(rows, hb, type_key, t) ==
  IF ~t.isdict THEN rows
  ELSE IF ToNum(t.id) = None THEN rows
  ELSE LET tid_i == Val(ToNum(t.id))
           artist == Strip(t.artist_name)
           song == Strip(t.song_name)
           url == Url(tid_i)
           hits == IF hb[tid_i] # None THEN Val(hb[tid_i]) ELSE 0
           existing == DictGet(rows, url)
       IN IF artist = "" \/ song = "" THEN rows
          ELSE IF existing # 0
            THEN IF hits # 0 /\ hits > rows[existing].hits
                   THEN [rows EXCEPT ![existing].hits = hits]
                   ELSE rows
            ELSE DictSet(rows, url, Row(artist, song, type_key, url, hits, None, None))

\* RatingStep with the check of the names before the lookup, as lines 218-219 do
RatingStepSkipNameless(rows, type_key, t) ==
  IF ~t.isdict THEN rows
  ELSE IF ToNum(t.id) = None THEN rows
  ELSE IF Strip(t.artist_name) = "" \/ Strip(t.song_name) = "" THEN rows
  ELSE LET url == Url(Val(ToNum(t.id)))
           rating == ToNum(t.rating)
           votes == ToNum(t.votes)
           existing == DictGet(rows, url)
       IN IF existing # 0
            THEN LET r1 == IF rating # None THEN [rows EXCEPT ![existing].rating = rating]
                                            ELSE rows
                 IN IF votes # None THEN [r1 EXCEPT ![existing].votes = votes] ELSE r1
            ELSE DictSet(rows, url, Row(Strip(t.artist_name), Strip(t.song_name), type_key,
                                        url, 0, rating, votes))

\* RatingStep without the check of the names at line 282
RatingStepNoNameCheck(rows, type_key, t) ==
  IF ~t.isdict THEN rows
  ELSE IF ToNum(t.id) = None THEN rows
  ELSE LET tid_i == Val(ToNum(t.id))
           url == Url(tid_i)
           rating == ToNum(t.rating)
           votes == ToNum(t.votes)
           existing == DictGet(rows, url)
       IN IF existing # 0
            THEN LET r1 == IF rating # None THEN [rows EXCEPT ![existing].rating = rating]
                                            ELSE rows
                 IN IF votes # None THEN [r1 EXCEPT ![existing].votes = votes] ELSE r1
            ELSE DictSet(rows, url, Row(Strip(t.artist_name), Strip(t.song_name), type_key,
                                        url, 0, rating, votes))

\* one iteration of "for t in tabs_rating" on the mapping rows
RatingStep(rows, type_key, t) ==
  IF ~t.isdict THEN rows
  ELSE IF ToNum(t.id) = None THEN rows
  ELSE LET tid_i == Val(ToNum(t.id))
           artist == Strip(t.artist_name)
           song == Strip(t.song_name)
           url == Url(tid_i)
           rating == ToNum(t.rating)
           votes == ToNum(t.votes)
           existing == DictGet(rows, url)
       IN IF existing # 0
            THEN LET r1 == IF rating # None THEN [rows EXCEPT ![existing].rating = rating]
                                            ELSE rows
                 IN IF votes # None THEN [r1 EXCEPT ![existing].votes = votes] ELSE r1
            ELSE IF artist = "" \/ song = "" THEN rows
            ELSE DictSet(rows, url, Row(artist, song, type_key, url, 0, rating, votes))

\* FoldStep storing the row of the later type over the record: all_rows[url] = row
FoldStepOverwrite(all, row) == DictSet(all, row.url, row)

\* FoldStep without the tests of lines 324 and 326: rating and votes are assigned
FoldStepAssignsRating(all, row) ==
  LET existing == DictGet(all, row.url)
  IN IF existing # 0
       THEN LET a1 == IF row.hits # 0 /\ row.hits > all[existing].hits
                        THEN [all EXCEPT ![existing].hits = row.hits] ELSE all
            IN [a1 EXCEPT ![existing].rating = row.rating, ![existing].votes = row.votes]
       ELSE DictSet(all, row.url, row)

\* FoldStep with "if row.hits" alone at line 322: the later hits are assigned
FoldStepLastHits(all, row) ==
  LET existing == DictGet(all, row.url)
  IN IF existing # 0
       THEN LET a1 == IF row.hits # 0
                        THEN [all EXCEPT ![existing].hits = row.hits] ELSE all
                a2 == IF row.rating # None
                        THEN [a1 EXCEPT ![existing].rating = row.rating] ELSE a1
            IN IF row.votes # None THEN [a2 EXCEPT ![existing].votes = row.votes] ELSE a2
       ELSE DictSet(all, row.url, row)

\* FoldStep without the lookup at line 319: every row is stored as new
FoldStepNoLookup(all, row) == Append(all, row)

\* one iteration of "for url, row in rows_for_type.items()" in scrape_all
FoldStep(all, row) ==
  LET existing == DictGet(all, row.url)
  IN IF existing # 0
       THEN LET a1 == IF row.hits # 0 /\ row.hits > all[existing].hits
                        THEN [all EXCEPT ![existing].hits = row.hits] ELSE all
                a2 == IF row.rating # None
                        THEN [a1 EXCEPT ![existing].rating = row.rating] ELSE a1
            IN IF row.votes # None THEN [a2 EXCEPT ![existing].votes = row.votes] ELSE a2
       ELSE DictSet(all, row.url, row)

\* key=lambda r: (r.hits, r.rating or 0.0): TRUE when a's key is greater than b's
RatingOrZero(r) == IF r.rating # None THEN Val(r.rating) ELSE 0
KeyGreater(a, b) ==
  a.hits > b.hits \/ (a.hits = b.hits /\ RatingOrZero(a) > RatingOrZero(b))

\* list.sort(key=..., reverse=True): stable, rows with equal keys keep their order
InsertDesc(s, x) ==
  LET before == {i \in 1..Len(s) : \A j \in 1..i : ~KeyGreater(x, s[j])}
      k == Cardinality(before)
  IN SubSeq(s, 1, k) \o <<x>> \o SubSeq(s, k + 1, Len(s))

RECURSIVE SortRows(_)
SortRows(rows) ==
  IF rows = <<>> THEN <<>>
  ELSE InsertDesc(SortRows(SubSeq(rows, 1, Len(rows) - 1)), rows[Len(rows)])

(***************************************************************************)
(* Time and timestamps.  Instants are whole hours.  A timestamp string is  *)
(* its instant with the way its timezone is written.                       *)
(***************************************************************************)
TickHours == 12        \* the clock is observed every TickHours hours
MaxTicks == 3          \* the clock runs from 0 to MaxTicks * TickHours
MAX_AGE_HOURS == 24    \* max_age_hours: float = 24.0
Instants == {k * TickHours : k \in 0..MaxTicks}

IsoString(t, tz) == [kind |-> "iso", t |-> t, tz |-> tz]

\* NowIso from a naive clock: datetime.utcnow().isoformat()
NowIsoNaive(t) == IsoString(t, "naive")

\* _now_iso(): _now_utc().isoformat().replace("+00:00", "Z")
NowIso(t) ==
  LET iso == IsoString(t, "+00:00")
  IN IF iso.tz = "+00:00" THEN [iso EXCEPT !.tz = "Z"] ELSE iso

\* ts.replace("Z", "+00:00") on an ISO string
ReplaceZ(ts) == IF ts.tz = "Z" THEN [ts EXCEPT !.tz = "+00:00"] ELSE ts

\* datetime.fromisoformat(s): an aware or a naive datetime, or ValueError
FromIsoFormat(s) ==
  IF s.kind # "iso" THEN [ok |-> FALSE, aware |-> FALSE, t |-> 0]
  ELSE IF s.tz = "Z" THEN [ok |-> FALSE, aware |-> FALSE, t |-> 0]
  ELSE [ok |-> TRUE, aware |-> s.tz # "naive", t |-> s.t]

(***************************************************************************)
(* JSON documents and files.  json.dump writes a document in WriteChunks   *)
(* pieces; a file holds the pieces written so far, by position.            *)
(***************************************************************************)
WriteChunks == 2
NumThreads == 2      \* request threads of the ThreadingHTTPServer
MaxInodes == NumThreads + 2

Hole == [doc |-> [kind |-> "hole"], part |-> 0]
Chunk(doc, k) == [doc |-> doc, part |-> k]
Serialize(doc) == [k \in 1..WriteChunks |-> Chunk(doc, k)]

\* the bytes are those of one whole document
IsDocument(content) ==
  /\ Len(content) = WriteChunks
  /\ \A k \in 1..WriteChunks : content[k].part = k /\ content[k].doc = content[1].doc
  /\ content[1].doc.kind # "text"

\* truthiness of a parsed JSON value: {}, [], "", 0 and null are falsy
Truthy(doc) ==
  IF doc.kind = "object" THEN TRUE
  ELSE IF doc.kind = "value" THEN doc.truthy
  ELSE FALSE

CACHE_PATH == "data/ug_top.json"
\* CACHE_PATH.with_suffix(".tmp")
tmp_path == "data/ug_top.tmp"
Paths == {CACHE_PATH, tmp_path}
NoFile == 0

\* _load_existing(): the parsed document, or None (absent file, or json.load raises)
LoadExisting(dir, disk) ==
  IF dir[CACHE_PATH] = NoFile THEN None
  ELSE IF ~IsDocument(disk[dir[CACHE_PATH]]) THEN None
  ELSE Some(disk[dir[CACHE_PATH]][1].doc)

\* _cache_is_fresh with "age < timedelta" at line 107
CacheIsFreshStrict(dir, disk, t, max_age_hours) ==
  LET loaded == LoadExisting(dir, disk)
  IN IF loaded = None THEN "False"
     ELSE LET data == Val(loaded)
          IN IF ~Truthy(data) THEN "False"
             ELSE IF data.kind # "object" THEN "Raise"
             ELSE LET meta == data.meta
                  IN IF meta.kind = "value" /\ meta.truthy THEN "Raise"
                     ELSE IF meta.kind # "object" THEN "False"
                     ELSE LET ts == meta.scraped_at
                          IN IF ts.kind \in {"absent", "falsy"} THEN "False"
                             ELSE IF ts.kind = "nonstring" THEN "False"
                             ELSE LET dt == FromIsoFormat(ReplaceZ(ts))
                                  IN IF ~dt.ok THEN "False"
                                     ELSE IF ~dt.aware THEN "Raise"
                                     ELSE IF t - dt.t < max_age_hours THEN "True"
                                     ELSE "False"

\* _cache_is_fresh(max_age_hours) at instant t: "True", "False", or "Raise" when
\* an exception leaves the function
CacheIsFresh(dir, disk, t, max_age_hours) ==
  LET loaded == LoadExisting(dir, disk)
  IN IF loaded = None THEN "False"
     ELSE LET data == Val(loaded)
          IN IF ~Truthy(data) THEN "False"
             ELSE IF data.kind # "object" THEN "Raise"          \* data.get
             ELSE LET meta == data.meta
                  IN IF meta.kind = "value" /\ meta.truthy THEN "Raise"   \* meta.get
                     ELSE IF meta.kind # "object" THEN "False"  \* meta = {} : ts is None
                     ELSE LET ts == meta.scraped_at
                          IN IF ts.kind \in {"absent", "falsy"} THEN "False"
                             ELSE IF ts.kind = "nonstring" THEN "False"   \* ts.replace raises
                             ELSE LET dt == FromIsoFormat(ReplaceZ(ts))
                                  IN IF ~dt.ok THEN "False"
                                     ELSE IF ~dt.aware THEN "Raise"       \* aware - naive
                                     ELSE IF t - dt.t <= max_age_hours THEN "True"
                                     ELSE "False"

(***************************************************************************)
(* File operations on the directory dir (path -> inode, NoFile when the    *)
(* path does not exist) and the disk (inode -> content).                   *)
(***************************************************************************)
Inodes == 1..MaxInodes
FreeInode(dir, fds) ==
  CHOOSE i \in Inodes : (\A p \in Paths : dir[p] # i) /\ i \notin fds
       /\ \A j \in Inodes : ((\A p \in Paths : dir[p] # j) /\ j \notin fds) => i <= j

\* path.open("w"): creates the file or truncates the one that is there
OpenWInode(dir, fds, path) == IF dir[path] = NoFile THEN FreeInode(dir, fds) ELSE dir[path]
OpenWDir(dir, fds, path) == [dir EXCEPT ![path] = OpenWInode(dir, fds, path)]
OpenWDisk(dir, disk, fds, path) == [disk EXCEPT ![OpenWInode(dir, fds, path)] = <<>>]

\* f.write of piece k of doc at the descriptor's offset k, on inode ino
WriteAt(content, k, c) ==
  [i \in 1..(IF Len(content) > k THEN Len(content) ELSE k) |->
     IF i = k THEN c ELSE IF i <= Len(content) THEN content[i] ELSE Hole]
WriteDisk(disk, ino, doc, k) == [disk EXCEPT ![ino] = WriteAt(disk[ino], k, Chunk(doc, k))]

\* os.replace(src, dst): dst names src's inode, src is gone
ReplaceDir(dir, src, dst) == [dir EXCEPT ![dst] = dir[src], ![src] = NoFile]

\* an inode no path names and no descriptor holds is freed
Reclaim(dir, disk, fds) ==
  [i \in Inodes |-> IF (\E p \in Paths : dir[p] = i) \/ i \in fds THEN disk[i] ELSE <<>>]

(***************************************************************************)
(* State.                                                                  *)
(***************************************************************************)
VARIABLES
  prog,         \* the program of this behaviour
  pc,           \* scrape_all: position in the code
  force,        \* scrape_all: its argument
  now,          \* the clock (_now_utc)
  ti,           \* scrape_all: index i of the type being fetched (1-based)
  n,            \* _build_rows_for_type: entries of the current list already read
  hits_by_id,   \* _build_rows_for_type: the local dict of the same name
  rows_by_url,  \* _build_rows_for_type: the local dict of the same name
  all_rows,     \* scrape_all: the local dict of the same name
  fi,           \* scrape_all: rows of rows_for_type.items() already folded
  out,          \* scrape_all: the dict to be dumped (None before it is built)
  wpos,         \* scrape_all: pieces of out written to the temporary file
  fd,           \* scrape_all: inode of the open temporary file (NoFile: none)
  ret,          \* scrape_all: the returned dict, None while running or raised
  resp,         \* HTTP status of the /scrape response (0: not yet sent)
  dir, disk,    \* the data directory
  obs,          \* history: the listing entry read by the last loop iteration
  supplied,     \* history: per id, the greatest hits an entry of a hits listing carried
  failed,       \* history: the fetch or the extraction of some listing of this run failed
  before,       \* history: the cache file's content when scrape_all was called
  fetched,      \* history: listing pages this call of scrape_all has requested
  commits,      \* history: os.replace calls this call of scrape_all has made
  calls,        \* history: calls of scrape_all so far, the running one included
  prev_ret,     \* history: what the call before this one returned
  m_all_rows,   \* merge_ug.main: the local list all_rows, the rows of the raw files
  by_url,       \* merge_ug.main: the local dict of the same name
  mn,           \* merge_ug.main: rows of all_rows already read
  mpc,          \* merge_ug.main: position in the code
  payload,      \* merge_ug.main: the dict to be dumped (None before it is built)
  mpos,         \* merge_ug.main: pieces of payload written to OUT_PATH
  run,          \* merge_ug: which run of main over the same raw files this is
  first_rows,   \* history: the "rows" the first run of main dumped (None before)
  max_age,      \* _cache_is_fresh: its argument max_age_hours
  is_fresh,     \* _cache_is_fresh: its result ("pending" before the call)
  th,           \* server: per request thread, the frame of do_GET and of scrape_all
  reqs,         \* server: requests accepted so far
  saved         \* history: the contents the cache file got from finished saves

svars == <<pc, force, ti, n, hits_by_id, rows_by_url, all_rows, fi, out, wpos, fd, ret,
           resp, obs, supplied, failed, before, fetched, commits, calls, prev_ret>>
mvars == <<m_all_rows, by_url, mn, mpc, payload, mpos, run, first_rows>>

cvars == <<max_age, is_fresh>>
tvars == <<th, reqs, saved>>

vars == <<prog, now, dir, disk, svars, mvars, cvars, tvars>>

\* what the actions of one program leave alone
nonscraper == <<mvars, cvars, tvars>>
nonmerge == <<svars, cvars, tvars>>
nonserver == <<prog, svars, mvars, cvars>>

\* what the history variable obs records of a listing entry: the pass that read it,
\* whether it carried a usable id, both names, and whether its id had a record;
\* its id (0: none), the hits the page's "hits" array gave for it, and its rating
\* and votes as line 263-272 convert them
NoObs ==
  [pass |-> "none", hasid |-> FALSE, named |-> FALSE, existed |-> FALSE,
   id |-> 0, hits |-> None, rating |-> None, votes |-> None]
HasId(t) == t.isdict /\ ToNum(t.id) # None
Named(t) == t.isdict /\ Strip(t.artist_name) # "" /\ Strip(t.song_name) # ""
Existed(rows, t) == HasId(t) /\ DictGet(rows, Url(Val(ToNum(t.id)))) # 0
Observed(pass, rows, t, h) ==
  [pass |-> pass, hasid |-> HasId(t), named |-> Named(t), existed |-> Existed(rows, t),
   id |-> IF HasId(t) THEN Val(ToNum(t.id)) ELSE 0,
   hits |-> IF HasId(t) THEN h ELSE None,
   rating |-> IF HasId(t) THEN ToNum(t.rating) ELSE None,
   votes |-> IF HasId(t) THEN ToNum(t.votes) ELSE None]

\* a snapshot as save writes it
Snapshot(t, rows) ==
  [kind |-> "object",
   meta |-> [kind |-> "object", scraped_at |-> NowIso(t), types |-> types,
             row_count |-> Len(rows)],
   rows |-> rows]

\* the snapshot an earlier run left behind at instant t
PriorRows == <<Row("A", "S", "chords", Url(1), 1, None, None)>>
PriorSnapshot(t) == Snapshot(t, PriorRows)

\* the instants at which an earlier run wrote the cache: long ago, or one tick ago
LastInstant == MaxTicks * TickHours
PriorInstants == {0, (MaxTicks - 1) * TickHours}

CacheContent(d, k) == IF d[CACHE_PATH] = NoFile THEN <<>> ELSE k[d[CACHE_PATH]]

EmptyDisk == [i \in Inodes |-> <<>>]
NoDir == [p \in Paths |-> NoFile]

MergeUgIdle ==
  /\ m_all_rows = <<>> /\ by_url = <<>> /\ mn = 0 /\ mpc = "idle"
  /\ payload = None /\ mpos = 0 /\ run = 1 /\ first_rows = None
CheckIdle == max_age = MAX_AGE_HOURS /\ is_fresh = "pending"

\* a request thread: the handler's position, scrape_all's argument force and its
\* locals out and f (position pos, inode fd), the bytes read from the cache file,
\* and the status sent; prior is history: the cache file's content when the
\* thread opened the temporary file
Threads == 1..NumThreads
IdleThread ==
  [pc |-> "idle", force |-> FALSE, out |-> None, pos |-> 0, fd |-> NoFile,
   data |-> None, resp |-> 0, prior |-> <<>>]
ServerIdle == th = [i \in Threads |-> IdleThread] /\ reqs = 0 /\ saved = {}

ScraperIdle(p) ==
  /\ pc = p
  /\ ti = 1 /\ n = 0 /\ hits_by_id = EmptyHits
  /\ rows_by_url = <<>> /\ all_rows = <<>> /\ fi = 0
  /\ out = None /\ wpos = 0 /\ fd = NoFile /\ ret = None /\ resp = 0
  /\ obs = NoObs /\ supplied = EmptyHits /\ failed = FALSE
  /\ fetched = 0 /\ commits = 0 /\ calls = 1 /\ prev_ret = None

\* A call of scrape_all: the cache file is absent, or holds an earlier snapshot.
\* force is passed where it changes the outcome, over a fresh cache.
InitScraper ==
  /\ prog = "scraper"
  /\ ScraperIdle("start")
  /\ now = LastInstant
  /\ \/ dir = NoDir /\ disk = EmptyDisk
     \/ \E t \in PriorInstants :
          /\ dir = [NoDir EXCEPT ![CACHE_PATH] = 1]
          /\ disk = [EmptyDisk EXCEPT ![1] = Serialize(PriorSnapshot(t))]
  /\ force \in BOOLEAN
  /\ force => CacheIsFresh(dir, disk, now, MAX_AGE_HOURS) = "True"
  /\ before = CacheContent(dir, disk)
  /\ MergeUgIdle /\ CheckIdle /\ ServerIdle

\* the first run: no cache file yet
InitFirstRun == InitScraper /\ dir[CACHE_PATH] = NoFile

\* the frame of scrape_all is gone: an exception left it, or it returned
Unwound ==
  /\ ti' = 1 /\ n' = 0 /\ hits_by_id' = EmptyHits
  /\ rows_by_url' = <<>> /\ all_rows' = <<>> /\ fi' = 0
  /\ out' = None /\ wpos' = 0 /\ fd' = NoFile
  /\ obs' = NoObs /\ supplied' = EmptyHits

locals == <<ti, n, hits_by_id, rows_by_url, all_rows, fi, out, wpos, fd, obs, supplied>>

\* what is known of the calls before the running one
earlier == <<calls, prev_ret>>

\* ScrapeAllBegin with the test of line 304 dropped: the cache is never reused
ScrapeAllBeginNoReuse ==
  /\ prog = "scraper" /\ pc = "start"
  /\ pc' = "hits_fetch"
  /\ UNCHANGED <<prog, now, dir, disk, force, ret, resp, failed, before, fetched,
                 commits, locals, earlier, nonscraper>>

\* scrape_all, lines 304-307: reuse a fresh cache, else go on to fetch
ScrapeAllBegin ==
  /\ prog = "scraper" /\ pc = "start"
  /\ LET fresh == IF force THEN "False" ELSE CacheIsFresh(dir, disk, now, MAX_AGE_HOURS)
         existing == LoadExisting(dir, disk)
     IN IF fresh = "Raise" THEN pc' = "raised" /\ ret' = ret
        ELSE IF fresh = "True" /\ existing # None /\ Truthy(Val(existing))
          THEN pc' = "returned" /\ ret' = existing
          ELSE pc' = "hits_fetch" /\ ret' = ret
  /\ UNCHANGED <<prog, now, dir, disk, force, resp, failed, before, fetched,
                 commits, locals, earlier, nonscraper>>

ListingOutcomes == {"fetch_error", "bad_json", "no_marker", "no_page_data", "ok"}

\* _build_rows_for_type, lines 187-192: fetch and parse the hits-ordered listing
FetchHitsListing ==
  /\ prog = "scraper" /\ pc = "hits_fetch"
  /\ fetched' = fetched + 1
  /\ \E o \in ListingOutcomes :
       \/ /\ o \in {"fetch_error", "bad_json"}      \* raise_for_status / json.loads raise
          /\ pc' = "raised" /\ Unwound
          /\ failed' = TRUE
       \/ /\ o \in {"no_marker", "no_page_data"}    \* tabs, hits_list = [], []
          /\ pc' = "rating_fetch"
          /\ failed' = TRUE
          /\ rows_by_url' = <<>> /\ hits_by_id' = EmptyHits /\ n' = 0
          /\ UNCHANGED <<ti, all_rows, fi, out, wpos, fd, obs, supplied>>
       \/ /\ o = "ok"
          /\ pc' = "hits_list_loop"
          /\ rows_by_url' = <<>> /\ hits_by_id' = EmptyHits /\ n' = 0
          /\ UNCHANGED <<failed, ti, all_rows, fi, out, wpos, fd, obs, supplied>>
  /\ UNCHANGED <<prog, now, dir, disk, force, ret, resp, before, commits, earlier, nonscraper>>

\* lines 193-203: one iteration over hits_list
HitsListLoop ==
  /\ prog = "scraper" /\ pc = "hits_list_loop" /\ n < MaxHitsList
  /\ \E h \in HitsEntries : hits_by_id' = HitsListStep(hits_by_id, h)
  /\ n' = n + 1
  /\ UNCHANGED <<prog, now, dir, disk, pc, force, ret, resp, failed, before, fetched,
                 commits, earlier, nonscraper,
                 ti, rows_by_url, all_rows, fi, out, wpos, fd, obs, supplied>>

\* hits_list is exhausted
HitsListLoopEnd ==
  /\ prog = "scraper" /\ pc = "hits_list_loop"
  /\ pc' = "hits_loop" /\ n' = 0
  /\ UNCHANGED <<prog, now, dir, disk, force, ret, resp, failed, before, fetched,
                 commits, earlier, nonscraper,
                 ti, hits_by_id, rows_by_url, all_rows, fi, out, wpos, fd, obs, supplied>>

\* the hits an entry of the hits-ordered listing carries, None when it has none
EntryHits(hb, t) == IF HasId(t) THEN hb[Val(ToNum(t.id))] ELSE None

MaxOpt(a, b) == IF a = None THEN b ELSE IF b = None THEN a
                ELSE IF Val(a) >= Val(b) THEN a ELSE b

\* lines 205-238: one iteration over tabs_hits
HitsLoop ==
  /\ prog = "scraper" /\ pc = "hits_loop" /\ n < MaxTabs
  /\ \E t \in HitsTabEntries :
       /\ rows_by_url' = HitsStep(rows_by_url, hits_by_id, types[ti], t)
       /\ obs' = Observed("hits", rows_by_url, t, EntryHits(hits_by_id, t))
       /\ supplied' = IF EntryHits(hits_by_id, t) = None THEN supplied
                      ELSE [supplied EXCEPT ![Val(ToNum(t.id))] =
                              MaxOpt(@, EntryHits(hits_by_id, t))]
  /\ n' = n + 1
  /\ UNCHANGED <<prog, now, dir, disk, pc, force, ret, resp, failed, before, fetched,
                 commits, earlier, nonscraper,
                 ti, hits_by_id, all_rows, fi, out, wpos, fd>>

\* line 240: tabs_hits is exhausted
HitsLoopEnd ==
  /\ prog = "scraper" /\ pc = "hits_loop"
  /\ pc' = "rating_fetch"
  /\ hits_by_id' = EmptyHits /\ n' = 0 /\ obs' = NoObs
  /\ UNCHANGED <<prog, now, dir, disk, force, ret, resp, failed, before, fetched,
                 commits, earlier, nonscraper,
                 ti, rows_by_url, all_rows, fi, out, wpos, fd, supplied>>

\* lines 243-244: fetch and parse the rating-ordered listing
FetchRatingListing ==
  /\ prog = "scraper" /\ pc = "rating_fetch"
  /\ fetched' = fetched + 1
  /\ \E o \in ListingOutcomes :
       \/ /\ o \in {"fetch_error", "bad_json"}
          /\ pc' = "raised" /\ Unwound
          /\ failed' = TRUE
       \/ /\ o \in {"no_marker", "no_page_data"}    \* tabs_rating = []
          /\ pc' = "fold"
          /\ failed' = TRUE
          /\ UNCHANGED locals
       \/ /\ o = "ok"
          /\ pc' = "rating_loop"
          /\ UNCHANGED <<failed, locals>>
  /\ UNCHANGED <<prog, now, dir, disk, force, ret, resp, before, commits, earlier, nonscraper>>

\* lines 246-292: one iteration over tabs_rating; the "hits" array of the
\* rating-ordered page is thrown away at line 244, so the entry comes without hits
RatingLoop ==
  /\ prog = "scraper" /\ pc = "rating_loop" /\ n < MaxTabs
  /\ \E t \in RatingTabEntries :
       /\ rows_by_url' = RatingStep(rows_by_url, types[ti], t)
       /\ obs' = Observed("rating", rows_by_url, t, None)
  /\ n' = n + 1
  /\ UNCHANGED <<prog, now, dir, disk, pc, force, ret, resp, failed, before, fetched,
                 commits, earlier, nonscraper,
                 ti, hits_by_id, all_rows, fi, out, wpos, fd, supplied>>

\* line 294: return rows_by_url
RatingLoopEnd ==
  /\ prog = "scraper" /\ pc = "rating_loop"
  /\ pc' = "fold" /\ n' = 0 /\ obs' = NoObs
  /\ UNCHANGED <<prog, now, dir, disk, force, ret, resp, failed, before, fetched,
                 commits, earlier, nonscraper,
                 ti, hits_by_id, rows_by_url, all_rows, fi, out, wpos, fd, supplied>>

\* scrape_all, lines 318-329: one iteration over rows_for_type.items()
FoldLoop ==
  /\ prog = "scraper" /\ pc = "fold" /\ fi < Len(rows_by_url)
  /\ all_rows' = FoldStep(all_rows, rows_by_url[fi + 1])
  /\ fi' = fi + 1
  /\ UNCHANGED <<prog, now, dir, disk, pc, force, ret, resp, failed, before, fetched,
                 commits, earlier, nonscraper,
                 ti, n, hits_by_id, rows_by_url, out, wpos, fd, obs, supplied>>

\* FoldLoopEnd leaving the loop of line 314 after the first type
FoldLoopEndFirstType ==
  /\ prog = "scraper" /\ pc = "fold" /\ fi = Len(rows_by_url)
  /\ rows_by_url' = <<>> /\ fi' = 0
  /\ ti' = ti /\ pc' = "build"
  /\ UNCHANGED <<prog, now, dir, disk, force, ret, resp, failed, before, fetched,
                 commits, earlier, nonscraper,
                 n, hits_by_id, all_rows, out, wpos, fd, obs, supplied>>

\* line 330 and the loop header at line 314: next type, or leave the loop
FoldLoopEnd ==
  /\ prog = "scraper" /\ pc = "fold" /\ fi = Len(rows_by_url)
  /\ rows_by_url' = <<>> /\ fi' = 0
  /\ IF ti < Len(types) THEN ti' = ti + 1 /\ pc' = "hits_fetch"
                        ELSE ti' = ti /\ pc' = "build"
  /\ UNCHANGED <<prog, now, dir, disk, force, ret, resp, failed, before, fetched,
                 commits, earlier, nonscraper,
                 n, hits_by_id, all_rows, out, wpos, fd, obs, supplied>>

\* lines 332-343: sort the rows and build the dict to dump
BuildOut ==
  /\ prog = "scraper" /\ pc = "build"
  /\ out' = Some(Snapshot(now, SortRows(all_rows)))
  /\ pc' = "open_tmp"
  /\ UNCHANGED <<prog, now, dir, disk, force, ret, resp, failed, before, fetched,
                 commits, earlier, nonscraper,
                 ti, n, hits_by_id, rows_by_url, all_rows, fi, wpos, fd, obs, supplied>>

\* lines 345-346: tmp_path.open("w")
OpenTmp ==
  /\ prog = "scraper" /\ pc = "open_tmp"
  /\ fd' = OpenWInode(dir, {}, tmp_path)
  /\ dir' = OpenWDir(dir, {}, tmp_path)
  /\ disk' = OpenWDisk(dir, disk, {}, tmp_path)
  /\ wpos' = 0
  /\ pc' = "write"
  /\ UNCHANGED <<prog, now, force, ret, resp, failed, before, fetched,
                 commits, earlier, nonscraper,
                 ti, n, hits_by_id, rows_by_url, all_rows, fi, out, obs, supplied>>

\* line 347: json.dump writes the next piece, or the write raises (OSError)
WriteTmp ==
  /\ prog = "scraper" /\ pc = "write" /\ wpos < WriteChunks
  /\ \/ /\ disk' = WriteDisk(disk, fd, Val(out), wpos + 1)
        /\ wpos' = wpos + 1
        /\ UNCHANGED <<pc, ti, n, hits_by_id, rows_by_url, all_rows, fi, out, fd, obs,
                       supplied>>
     \/ /\ pc' = "raised" /\ Unwound
        /\ UNCHANGED disk
  /\ UNCHANGED <<prog, now, dir, force, ret, resp, failed, before, fetched, commits,
                 earlier, nonscraper>>

\* end of the with block: the file is closed
CloseTmp ==
  /\ prog = "scraper" /\ pc = "write" /\ wpos = WriteChunks
  /\ fd' = NoFile
  /\ pc' = "replace"
  /\ UNCHANGED <<prog, now, dir, disk, force, ret, resp, failed, before, fetched,
                 commits, earlier, nonscraper,
                 ti, n, hits_by_id, rows_by_url, all_rows, fi, out, wpos, obs, supplied>>

\* lines 348-350: os.replace(tmp_path, CACHE_PATH); return out
ReplaceCache ==
  /\ prog = "scraper" /\ pc = "replace"
  /\ dir' = ReplaceDir(dir, tmp_path, CACHE_PATH)
  /\ disk' = Reclaim(dir', disk, {})
  /\ ret' = out
  /\ commits' = commits + 1
  /\ pc' = "returned" /\ Unwound
  /\ UNCHANGED <<prog, now, force, resp, failed, before, fetched, earlier, nonscraper>>

\* server.py, lines 63-76: the /scrape handler answers 200, or 500 when scrape_all raised
Respond ==
  /\ prog = "scraper" /\ pc \in {"returned", "raised"}
  /\ resp' = IF pc = "raised" THEN 500 ELSE 200
  /\ pc' = "done"
  /\ UNCHANGED <<prog, now, dir, disk, force, ret, failed, before, fetched,
                 commits, locals, earlier, nonscraper>>

\* server.py, lines 63-64: the next /scrape request, without force=1, arriving
\* within MAX_AGE_HOURS of a call that saved a snapshot
ScrapeAllAgain ==
  /\ prog = "scraper" /\ pc = "done" /\ resp = 200 /\ commits = 1
  /\ calls < MaxCalls
  /\ \E k \in 0..MaxTicks :
       /\ k * TickHours <= MAX_AGE_HOURS
       /\ now' = now + k * TickHours
  /\ force' = FALSE
  /\ pc' = "start"
  /\ prev_ret' = ret /\ ret' = None /\ resp' = 0
  /\ calls' = calls + 1
  /\ fetched' = 0 /\ commits' = 0 /\ failed' = FALSE
  /\ before' = CacheContent(dir, disk)
  /\ UNCHANGED <<prog, dir, disk, locals, nonscraper>>

(***************************************************************************)
(* merge_ug.py: cross-file dedup of whole rows.                            *)
(***************************************************************************)
MaxRows == 3       \* rows in the raw files together

\* code-point order of the strings the model uses
StrOrder == <<"", " ", "A", "B", "S", "bass", "chords", "guitar_pro", "tab", "ukulele">>
StrRank(x) == CHOOSE i \in 1..Len(StrOrder) : StrOrder[i] = x
StrLess(x, y) == StrRank(x) < StrRank(y)

\* a row of a raw file: url and hits may be missing or null
RawRows ==
  [artist : {"A", "B"}, song : {"S"}, type : {types[i] : i \in 1..Len(types)},
   url : {None} \cup {Some(Url(i)) : i \in Ids},
   hits : {None} \cup {Some(h) : h \in {0, 50, 100}},
   rating : {None}, votes : {None}]

\* lines 16-21: what the raw files hold together
AllRowLists == UNION {[1..k -> RawRows] : k \in 0..MaxRows}

\* r.get("hits") or 0
HitsOrZero(r) == IF r.hits # None THEN Val(r.hits) ELSE 0

\* DedupStep with ">=" at line 35: of rows with equal hits the later one stays
DedupStepLaterWinsTies(by, r) ==
  IF r.url = None THEN by
  ELSE LET current == DictGet(by, r.url)
       IN IF current = 0 THEN DictSet(by, r.url, r)
          ELSE IF HitsOrZero(r) >= HitsOrZero(by[current]) THEN DictSet(by, r.url, r)
          ELSE by

\* DedupStep without the replacement at lines 35-36: the first row of a url stays
DedupStepFirstWins(by, r) ==
  IF r.url = None THEN by
  ELSE IF DictGet(by, r.url) = 0 THEN DictSet(by, r.url, r)
  ELSE by

\* merge_ug.main, lines 25-36: one iteration of "for r in all_rows"
DedupStep(by, r) ==
  IF r.url = None THEN by
  ELSE LET current == DictGet(by, r.url)
       IN IF current = 0 THEN DictSet(by, r.url, r)
          ELSE IF HitsOrZero(r) > HitsOrZero(by[current]) THEN DictSet(by, r.url, r)
          ELSE by

\* key=lambda r: (type or "", -(hits or 0), artist or "", song or ""): a's key < b's
MergeKeyLess(a, b) ==
  \/ StrLess(a.type, b.type)
  \/ a.type = b.type /\ -HitsOrZero(a) < -HitsOrZero(b)
  \/ a.type = b.type /\ HitsOrZero(a) = HitsOrZero(b) /\ StrLess(a.artist, b.artist)
  \/ a.type = b.type /\ HitsOrZero(a) = HitsOrZero(b) /\ a.artist = b.artist
       /\ StrLess(a.song, b.song)

\* rows.sort(key=...): stable, ascending
InsertAsc(s, x) ==
  LET before_x == {i \in 1..Len(s) : \A j \in 1..i : ~MergeKeyLess(x, s[j])}
      k == Cardinality(before_x)
  IN SubSeq(s, 1, k) \o <<x>> \o SubSeq(s, k + 1, Len(s))

RECURSIVE SortMerged(_)
SortMerged(rows) ==
  IF rows = <<>> THEN <<>>
  ELSE InsertAsc(SortMerged(SubSeq(rows, 1, Len(rows) - 1)), rows[Len(rows)])

\* merge_ug.main, lines 43-50
Payload(t, rows) ==
  [kind |-> "object",
   meta |-> [kind |-> "object", scraped_at |-> IsoString(t, "+00:00"),
             row_count |-> Len(rows)],
   rows |-> rows]

InitMergeUg ==
  /\ prog = "merge_ug"
  /\ ScraperIdle("idle") /\ force = FALSE
  /\ now = LastInstant
  /\ dir = NoDir /\ disk = EmptyDisk
  /\ before = <<>>
  /\ m_all_rows \in AllRowLists
  /\ by_url = <<>> /\ mn = 0 /\ mpc = "loop" /\ payload = None /\ mpos = 0
  /\ run = 1 /\ first_rows = None
  /\ CheckIdle /\ ServerIdle

\* lines 25-36: read the next row of all_rows
MergeUgLoop ==
  /\ prog = "merge_ug" /\ mpc = "loop" /\ mn < Len(m_all_rows)
  /\ by_url' = DedupStep(by_url, m_all_rows[mn + 1])
  /\ mn' = mn + 1
  /\ UNCHANGED <<prog, now, dir, disk, nonmerge, run, first_rows, m_all_rows, mpc, payload, mpos>>

\* the rows.sort of line 41 as an unstable sort: rows with equal keys in any order
SortedPermutations(rows) ==
  {p \in {[i \in 1..Len(rows) |-> rows[f[i]]] : f \in Permutations(1..Len(rows))} :
     \A i \in 1..(Len(p) - 1) : ~MergeKeyLess(p[i + 1], p[i])}

\* MergeUgBuild with that unstable sort
MergeUgBuildUnstable ==
  /\ prog = "merge_ug" /\ mpc = "loop" /\ mn = Len(m_all_rows)
  /\ \E p \in SortedPermutations(by_url) : payload' = Some(Payload(now, p))
  /\ mpc' = "open"
  /\ UNCHANGED <<prog, now, dir, disk, nonmerge, run, first_rows, m_all_rows, by_url, mn,
                 mpos>>

\* lines 38-50: all_rows is exhausted; sort and build the payload
MergeUgBuild ==
  /\ prog = "merge_ug" /\ mpc = "loop" /\ mn = Len(m_all_rows)
  /\ payload' = Some(Payload(now, SortMerged(by_url)))
  /\ mpc' = "open"
  /\ UNCHANGED <<prog, now, dir, disk, nonmerge, run, first_rows, m_all_rows, by_url, mn, mpos>>

\* line 53: OUT_PATH.write_text opens the file itself for writing
MergeUgOpen ==
  /\ prog = "merge_ug" /\ mpc = "open"
  /\ dir' = OpenWDir(dir, {}, CACHE_PATH)
  /\ disk' = OpenWDisk(dir, disk, {}, CACHE_PATH)
  /\ mpos' = 0
  /\ mpc' = "write"
  /\ UNCHANGED <<prog, now, nonmerge, run, first_rows, m_all_rows, by_url, mn, payload>>

\* line 53: the text is written piece by piece
MergeUgWrite ==
  /\ prog = "merge_ug" /\ mpc = "write" /\ mpos < WriteChunks
  /\ disk' = WriteDisk(disk, dir[CACHE_PATH], Val(payload), mpos + 1)
  /\ mpos' = mpos + 1
  /\ mpc' = IF mpos + 1 = WriteChunks THEN "done" ELSE "write"
  /\ UNCHANGED <<prog, now, dir, nonmerge, run, first_rows, m_all_rows, by_url, mn, payload>>

\* main is run again over the same raw files
MergeUgRerun ==
  /\ prog = "merge_ug" /\ mpc = "done" /\ run = 1
  /\ run' = 2
  /\ first_rows' = Some(Val(payload).rows)
  /\ by_url' = <<>> /\ mn' = 0 /\ payload' = None /\ mpos' = 0
  /\ mpc' = "loop"
  /\ UNCHANGED <<prog, now, dir, disk, nonmerge, m_all_rows>>

MergeUgNext == MergeUgLoop \/ MergeUgBuild \/ MergeUgOpen \/ MergeUgWrite

ScraperNext ==
  \/ ScrapeAllBegin
  \/ FetchHitsListing \/ HitsListLoop \/ HitsListLoopEnd \/ HitsLoop \/ HitsLoopEnd
  \/ FetchRatingListing \/ RatingLoop \/ RatingLoopEnd
  \/ FoldLoop \/ FoldLoopEnd
  \/ BuildOut \/ OpenTmp \/ WriteTmp \/ CloseTmp \/ ReplaceCache \/ Respond

(***************************************************************************)
(* The freshness check on its own, over the contents a cache file may have.*)
(***************************************************************************)
Timestamps ==
  {[kind |-> k, t |-> 0, tz |-> "naive"] : k \in {"absent", "falsy", "nonstring", "notiso"}}
  \cup {IsoString(t, tz) : t \in Instants, tz \in {"Z", "+00:00", "naive"}}

Metas ==
  {[kind |-> "absent"], [kind |-> "value", truthy |-> TRUE],
   [kind |-> "value", truthy |-> FALSE]}
  \cup {[kind |-> "object", scraped_at |-> ts, types |-> types, row_count |-> 1] :
          ts \in Timestamps}

Documents ==
  {[kind |-> "value", truthy |-> TRUE], [kind |-> "value", truthy |-> FALSE],
   [kind |-> "emptyobject"]}
  \cup {[kind |-> "object", meta |-> m, rows |-> PriorRows] : m \in Metas}

\* whole documents, bytes that are no JSON, and a document cut short
FileContents ==
  {Serialize(d) : d \in Documents}
  \cup {Serialize([kind |-> "text"])}
  \cup {SubSeq(Serialize(PriorSnapshot(0)), 1, WriteChunks - 1)}

MaxAges == {MAX_AGE_HOURS, TickHours}

InitFresh ==
  /\ prog = "fresh"
  /\ ScraperIdle("idle") /\ force = FALSE
  /\ MergeUgIdle
  /\ now \in Instants
  /\ \/ dir = NoDir /\ disk = EmptyDisk
     \/ \E c \in FileContents :
          /\ dir = [NoDir EXCEPT ![CACHE_PATH] = 1]
          /\ disk = [EmptyDisk EXCEPT ![1] = c]
  /\ before = CacheContent(dir, disk)
  /\ max_age \in MaxAges
  /\ is_fresh = "pending"
  /\ ServerIdle

\* a call of _cache_is_fresh(max_age)
CheckFresh ==
  /\ prog = "fresh" /\ is_fresh = "pending"
  /\ is_fresh' = CacheIsFresh(dir, disk, now, max_age)
  /\ UNCHANGED <<prog, now, dir, disk, svars, mvars, tvars, max_age>>

SpecFresh == InitFresh /\ [][CheckFresh]_vars

Init == InitScraper
Next == ScraperNext
Spec == Init /\ [][Next]_vars

\* the two merges, each from an empty data directory
InitMerge == InitFirstRun \/ InitMergeUg
NextMerge == ScraperNext \/ MergeUgNext
SpecMerge == InitMerge /\ [][NextMerge]_vars

\* the live merge alone: scrape_all from an empty data directory
SpecLive == InitFirstRun /\ [][ScraperNext]_vars

\* scrape_all from an empty data directory, then called again
NextAgain == ScraperNext \/ ScrapeAllAgain
SpecAgain == InitFirstRun /\ [][NextAgain]_vars

\* the merges, merge_ug.main run twice over the same raw files
NextRerun == NextMerge \/ MergeUgRerun
SpecRerun == InitMerge /\ [][NextRerun]_vars

(***************************************************************************)
(* server.py: a ThreadingHTTPServer runs do_GET on one thread per request. *)
(* The threads share the data directory and nothing else.                  *)
(***************************************************************************)
MaxRequests == 3     \* requests the server accepts in one behaviour

\* the descriptors the threads hold open
Fds(t) == {t[i].fd : i \in Threads} \ {NoFile}

\* what _build_rows_for_type and the sort leave in rows; they touch locals only
FetchedRows == {<<>>, PriorRows}

\* the handler sends its response with this status
Sent(t, i, status) == [t EXCEPT ![i].pc = "sent", ![i].resp = status, ![i].fd = NoFile]

InitServer ==
  /\ prog = "server"
  /\ ScraperIdle("idle") /\ force = FALSE
  /\ MergeUgIdle /\ CheckIdle
  /\ now = LastInstant
  /\ \/ dir = NoDir /\ disk = EmptyDisk
     \/ \E t \in PriorInstants :
          /\ dir = [NoDir EXCEPT ![CACHE_PATH] = 1]
          /\ disk = [EmptyDisk EXCEPT ![1] = Serialize(PriorSnapshot(t))]
  /\ before = CacheContent(dir, disk)
  /\ th = [i \in Threads |-> IdleThread]
  /\ reqs = 0
  /\ saved = {CacheContent(dir, disk)} \ {<<>>}

\* do_GET, lines 60-62: a request for /scrape, with or without force
DoGetScrape(i) ==
  /\ prog = "server" /\ th[i].pc = "idle" /\ reqs < MaxRequests
  /\ \E f \in BOOLEAN : th' = [th EXCEPT ![i] = [IdleThread EXCEPT !.pc = "check", !.force = f]]
  /\ reqs' = reqs + 1
  /\ UNCHANGED <<nonserver, now, dir, disk, saved>>

\* scrape_all, line 304: not force and _cache_is_fresh()
SrvCheckFresh(i) ==
  /\ prog = "server" /\ th[i].pc = "check"
  /\ LET fresh == IF th[i].force THEN "False"
                  ELSE CacheIsFresh(dir, disk, now, MAX_AGE_HOURS)
     IN th' = IF fresh = "Raise" THEN Sent(th, i, 500)
              ELSE IF fresh = "True" THEN [th EXCEPT ![i].pc = "load"]
              ELSE [th EXCEPT ![i].pc = "fetch"]
  /\ UNCHANGED <<nonserver, now, dir, disk, reqs, saved>>

\* scrape_all, lines 305-307: existing = _load_existing(); return it if truthy
SrvLoadExisting(i) ==
  /\ prog = "server" /\ th[i].pc = "load"
  /\ LET existing == LoadExisting(dir, disk)
     IN th' = IF existing # None /\ Truthy(Val(existing)) THEN Sent(th, i, 200)
              ELSE [th EXCEPT ![i].pc = "fetch"]
  /\ UNCHANGED <<nonserver, now, dir, disk, reqs, saved>>

\* scrape_all, lines 309-343: the listings are fetched and out is built, or a
\* fetch raises
SrvFetch(i) ==
  /\ prog = "server" /\ th[i].pc = "fetch"
  /\ \/ \E rows \in FetchedRows :
          th' = [th EXCEPT ![i].pc = "open_tmp", ![i].out = Some(Snapshot(now, rows))]
     \/ th' = Sent(th, i, 500)
  /\ UNCHANGED <<nonserver, now, dir, disk, reqs, saved>>

\* scrape_all, lines 345-346: tmp_path.open("w")
SrvOpenTmp(i) ==
  /\ prog = "server" /\ th[i].pc = "open_tmp"
  /\ th' = [th EXCEPT ![i].pc = "write", ![i].pos = 0,
                      ![i].fd = OpenWInode(dir, Fds(th), tmp_path),
                      ![i].prior = CacheContent(dir, disk)]
  /\ dir' = OpenWDir(dir, Fds(th), tmp_path)
  /\ disk' = OpenWDisk(dir, disk, Fds(th), tmp_path)
  /\ UNCHANGED <<nonserver, now, reqs, saved>>

\* scrape_all, line 347: json.dump writes the next piece, or the write raises
SrvWriteTmp(i) ==
  /\ prog = "server" /\ th[i].pc = "write" /\ th[i].pos < WriteChunks
  /\ \/ /\ disk' = WriteDisk(disk, th[i].fd, Val(th[i].out), th[i].pos + 1)
        /\ th' = [th EXCEPT ![i].pos = th[i].pos + 1]
     \/ /\ th' = Sent(th, i, 500)
        /\ disk' = Reclaim(dir, disk, Fds(th'))
  /\ UNCHANGED <<nonserver, now, dir, reqs, saved>>

\* end of the with block: the temporary file is closed
SrvCloseTmp(i) ==
  /\ prog = "server" /\ th[i].pc = "write" /\ th[i].pos = WriteChunks
  /\ th' = [th EXCEPT ![i].pc = "replace", ![i].fd = NoFile]
  /\ disk' = Reclaim(dir, disk, Fds(th'))
  /\ UNCHANGED <<nonserver, now, dir, reqs, saved>>

\* scrape_all, line 348 and server.py 65-75: os.replace(tmp_path, CACHE_PATH),
\* FileNotFoundError when the temporary file is gone
SrvReplace(i) ==
  /\ prog = "server" /\ th[i].pc = "replace"
  /\ IF dir[tmp_path] = NoFile
       THEN th' = Sent(th, i, 500) /\ UNCHANGED <<dir, disk, saved>>
       ELSE /\ th' = Sent(th, i, 200)
            /\ dir' = ReplaceDir(dir, tmp_path, CACHE_PATH)
            /\ disk' = Reclaim(dir', disk, Fds(th'))
            /\ saved' = saved \cup {Serialize(Val(th[i].out))}
  /\ UNCHANGED <<nonserver, now, reqs>>

\* do_GET, lines 40-46: a request for /data/ug_top.json; 404 when the file is absent
DoGetData(i) ==
  /\ prog = "server" /\ th[i].pc = "idle" /\ reqs < MaxRequests
  /\ th' = IF dir[CACHE_PATH] = NoFile THEN Sent([th EXCEPT ![i] = IdleThread], i, 404)
           ELSE [th EXCEPT ![i] = [IdleThread EXCEPT !.pc = "open"]]
  /\ reqs' = reqs + 1
  /\ UNCHANGED <<nonserver, now, dir, disk, saved>>

\* do_GET, line 48: CACHE_PATH.open("rb")
SrvOpenCache(i) ==
  /\ prog = "server" /\ th[i].pc = "open"
  /\ th' = IF dir[CACHE_PATH] = NoFile THEN Sent(th, i, 500)
           ELSE [th EXCEPT ![i].pc = "read", ![i].fd = dir[CACHE_PATH]]
  /\ UNCHANGED <<nonserver, now, dir, disk, reqs, saved>>

\* do_GET, lines 49-55: f.read(), close, and the bytes are sent with status 200
SrvReadCache(i) ==
  /\ prog = "server" /\ th[i].pc = "read"
  /\ th' = [Sent(th, i, 200) EXCEPT ![i].data = Some(disk[th[i].fd])]
  /\ disk' = Reclaim(dir, disk, Fds(th'))
  /\ UNCHANGED <<nonserver, now, dir, reqs, saved>>

\* the response is out and the thread ends
SrvFinish(i) ==
  /\ prog = "server" /\ th[i].pc = "sent"
  /\ th' = [th EXCEPT ![i] = IdleThread]
  /\ UNCHANGED <<nonserver, now, dir, disk, reqs, saved>>

ServerNext ==
  \E i \in Threads :
    \/ DoGetScrape(i) \/ SrvCheckFresh(i) \/ SrvLoadExisting(i) \/ SrvFetch(i)
    \/ SrvOpenTmp(i) \/ SrvWriteTmp(i) \/ SrvCloseTmp(i) \/ SrvReplace(i)
    \/ DoGetData(i) \/ SrvOpenCache(i) \/ SrvReadCache(i) \/ SrvFinish(i)

SpecServer == InitServer /\ [][ServerNext]_vars

(***************************************************************************)
(* Properties of the merges.                                               *)
(***************************************************************************)
IdOf(row) == row.url[3]

\* C1: when the live merge of a run is complete, every record's hits equals the
\* greatest hits value that the observations of its identifier supplied.
C1_HitsIsMaxSupplied ==
  (prog = "scraper" /\ pc = "build") =>
    \A i \in 1..Len(all_rows) :
      supplied[IdOf(all_rows[i])] # None =>
        all_rows[i].hits = Val(supplied[IdOf(all_rows[i])])

\* the failing input of C1: a record made by the first type with hits 1, and a
\* nameless entry of the second type's hits listing that carried hits 2 for its id
C1_FailingInput ==
  /\ prog = "scraper" /\ pc = "build" /\ Len(all_rows) = 1
  /\ all_rows[1].type = types[1] /\ all_rows[1].hits = 1
  /\ supplied[IdOf(all_rows[1])] = Some(2)

UniqueUrls(d) == \A i, j \in 1..Len(d) : d[i].url = d[j].url => i = j

\* the rows of the file at CACHE_PATH, when it holds a whole document
PersistedRows ==
  IF IsDocument(CacheContent(dir, disk)) THEN CacheContent(dir, disk)[1].doc.rows ELSE <<>>

\* C6: the mappings of both merges, the sorted row lists and the persisted rows
\* hold at most one record per url.
C6_OneRecordPerUrl ==
  /\ UniqueUrls(rows_by_url) /\ UniqueUrls(all_rows)
  /\ (out # None => UniqueUrls(Val(out).rows))
  /\ UniqueUrls(by_url)
  /\ (payload # None => UniqueUrls(Val(payload).rows))
  /\ UniqueUrls(PersistedRows)

\* C6 witness: the cross-type fold met a url that all_rows already held, and
\* all_rows still has one record
C6_Witness ==
  /\ prog = "scraper" /\ pc = "fold" /\ ti = 2 /\ fi = 1
  /\ Len(all_rows) = 1 /\ all_rows[1].url = rows_by_url[1].url
  /\ all_rows[1].type = types[1]

SameIdentity(r, q) ==
  /\ Len(r) = Len(q)
  /\ \A i \in 1..Len(r) :
       /\ r[i].artist = q[i].artist /\ r[i].song = q[i].song
       /\ r[i].type = q[i].type /\ r[i].url = q[i].url

\* C7: a listing entry without both names creates no record in either pass, changes
\* at most the metrics of records that exist, and raises nothing.
C7_NamelessNeverCreates ==
  [][(pc \in {"hits_loop", "rating_loop"} /\ n' = n + 1 /\ obs'.hasid /\ ~obs'.named) =>
       /\ SameIdentity(rows_by_url, rows_by_url')
       /\ (~obs'.existed => rows_by_url' = rows_by_url)
       /\ pc' = pc]_vars

\* C7 witness: the rating-ordered pass has read a nameless entry of an unseen id
C7_Witness ==
  /\ pc = "rating_loop" /\ obs.pass = "rating"
  /\ obs.hasid /\ ~obs.named /\ ~obs.existed

(***************************************************************************)
(* Properties of the freshness check.                                      *)
(***************************************************************************)
CacheDoc == CacheContent(dir, disk)[1].doc

\* the cache file is a whole snapshot whose scraped_at is an ISO-8601 string with a
\* timezone
HasAwareTimestamp ==
  /\ dir[CACHE_PATH] # NoFile
  /\ CacheContent(dir, disk) \in {Serialize(d) : d \in Documents}
  /\ CacheDoc.kind = "object" /\ CacheDoc.meta.kind = "object"
  /\ CacheDoc.meta.scraped_at.kind = "iso"
  /\ CacheDoc.meta.scraped_at.tz \in {"Z", "+00:00"}

SnapshotInstant == CacheDoc.meta.scraped_at.t

\* C8: over a snapshot with timestamp T the check answers true exactly when
\* now - T <= H, so true at T + H/2 and false at T + 3H/2; with no file it
\* answers false.
C8_FreshIffWithinMaxAge ==
  (prog = "fresh" /\ is_fresh # "pending") =>
    /\ dir[CACHE_PATH] = NoFile => is_fresh = "False"
    /\ HasAwareTimestamp =>
         /\ is_fresh = "True" <=> now - SnapshotInstant <= max_age
         /\ 2 * (now - SnapshotInstant) = max_age => is_fresh = "True"
         /\ 2 * (now - SnapshotInstant) = 3 * max_age => is_fresh = "False"

\* C8 witnesses: the check has answered at T + H/2, and at T + 3H/2
C8_Witness ==
  /\ prog = "fresh" /\ is_fresh = "True" /\ HasAwareTimestamp
  /\ 2 * (now - SnapshotInstant) = max_age

C8_WitnessStale ==
  /\ prog = "fresh" /\ is_fresh = "False" /\ HasAwareTimestamp
  /\ 2 * (now - SnapshotInstant) = 3 * max_age

\* the metadata of the cache file is missing or unparseable
BadMetadata == dir[CACHE_PATH] # NoFile /\ ~HasAwareTimestamp

\* C9: over a cache file whose metadata is missing or unparseable the check ends
\* with the answer false, never with an error.
C9_BadMetadataIsNotFresh ==
  (prog = "fresh" /\ is_fresh # "pending" /\ BadMetadata) => is_fresh = "False"

(***************************************************************************)
(* Properties of one call of scrape_all.                                   *)
(***************************************************************************)
\* the call is not forced and finds a snapshot written at most MAX_AGE_HOURS ago
CalledOverFreshCache(t) ==
  /\ prog = "scraper" /\ ~force
  /\ t \in PriorInstants /\ now - t <= MAX_AGE_HOURS
  /\ before = Serialize(PriorSnapshot(t))

\* C10: an unforced call over a fresh snapshot returns that snapshot, fetches no
\* listing and writes neither the temporary nor the cache file.
C10_FreshCacheReused ==
  \A t \in PriorInstants :
    CalledOverFreshCache(t) =>
      /\ pc \in {"start", "returned", "done"}
      /\ pc # "start" => ret = Some(PriorSnapshot(t))
      /\ CacheContent(dir, disk) = before
      /\ dir[tmp_path] = NoFile
      /\ ~failed /\ resp \in {0, 200}

\* C10 witness: such a call has returned
C10_Witness ==
  \E t \in PriorInstants : CalledOverFreshCache(t) /\ pc = "done" /\ ret # None

\* C2: when the fetch or the extraction of a listing failed during a refresh over
\* a persisted snapshot, the cache file is afterwards what it was before and the
\* endpoint has answered with the error.
C2_FailedListingKeepsSnapshot ==
  (prog = "scraper" /\ pc = "done" /\ failed /\ before # <<>>) =>
    (CacheContent(dir, disk) = before /\ resp = 500)

(***************************************************************************)
(* Properties of the server.                                               *)
(***************************************************************************)
\* a thread is inside scrape_all
InFlight(i) == th[i].pc \in {"check", "load", "fetch", "open_tmp", "write", "replace"}

\* C4: at most one refresh is in flight at any time, so no two threads write the
\* temporary file at once.
C4_RefreshesSerialized ==
  prog = "server" => Cardinality({i \in Threads : InFlight(i)}) <= 1

\* C3: what a reader of /data/ug_top.json is sent is always the whole content
\* that some finished save gave the cache file.
C3_ReaderSeesWholeSnapshot ==
  prog = "server" =>
    \A i \in Threads :
      (th[i].pc = "sent" /\ th[i].data # None) =>
        (IsDocument(Val(th[i].data)) /\ Val(th[i].data) \in saved)

\* C5: when a write to the temporary file fails, the cache file holds what it held
\* when the save began, or what a save finished since then gave it, and that is a
\* whole snapshot.
C5_FailedWriteKeepsSnapshot ==
  [][\A i \in Threads :
       (prog = "server" /\ th[i].pc = "write" /\ th'[i].pc = "sent") =>
         /\ CacheContent(dir', disk') \in {th[i].prior} \cup saved'
         /\ th[i].prior # <<>> => IsDocument(CacheContent(dir', disk'))]_vars

(***************************************************************************)
(* Properties of the persisted order.                                      *)
(***************************************************************************)
\* category ascending, hits descending, artist ascending, song ascending, on the
\* rows scrape_all writes: a's key is less than b's
OrderKeyLess(a, b) ==
  \/ StrLess(a.type, b.type)
  \/ a.type = b.type /\ a.hits > b.hits
  \/ a.type = b.type /\ a.hits = b.hits /\ StrLess(a.artist, b.artist)
  \/ a.type = b.type /\ a.hits = b.hits /\ a.artist = b.artist /\ StrLess(a.song, b.song)

\* C11: of every two adjacent rows of the persisted file the earlier one is not
\* greater than the later one under (category, -hits, artist, song), in the file
\* scrape_all writes and in the one merge_ug.main writes.
C11_PersistedRowsOrdered ==
  \A i \in 1..(Len(PersistedRows) - 1) :
    IF prog = "merge_ug" THEN ~MergeKeyLess(PersistedRows[i + 1], PersistedRows[i])
    ELSE ~OrderKeyLess(PersistedRows[i + 1], PersistedRows[i])

(***************************************************************************)
(* Properties of the cross-file dedup.                                     *)
(***************************************************************************)
\* the loop of merge_ug.main has read all of all_rows
DedupDone == prog = "merge_ug" /\ mn = Len(m_all_rows)

\* the row by_url keeps for the url of r
Kept(r) == by_url[DictGet(by_url, r.url)]

\* two rows of one url whose hits are both given and differ
SameUrlDifferentHits(a, b) ==
  /\ a.url # None /\ a.url = b.url
  /\ a.hits # None /\ b.hits # None /\ a.hits # b.hits

\* C12: of two input rows of one url with different hits the row with fewer hits
\* is not the one kept, whichever of the two came first; when they are the whole
\* input, the result is the row with more hits alone.
C12_KeepsGreaterHits ==
  DedupDone =>
    \A i, j \in 1..Len(m_all_rows) :
      LET a == m_all_rows[i]
          b == m_all_rows[j]
      IN (SameUrlDifferentHits(a, b) /\ Val(a.hits) > Val(b.hits)) =>
           /\ DictGet(by_url, a.url) # 0
           /\ HitsOrZero(Kept(a)) >= Val(a.hits)
           /\ Len(m_all_rows) = 2 => by_url = <<a>>

\* C12 witness: the rows with hits 50 and 100 of one url were read in that order
C12_Witness ==
  /\ DedupDone /\ Len(m_all_rows) = 2
  /\ SameUrlDifferentHits(m_all_rows[1], m_all_rows[2])
  /\ m_all_rows[1].hits = Some(50) /\ m_all_rows[2].hits = Some(100)
  /\ m_all_rows[1].artist # m_all_rows[2].artist
  /\ by_url = <<m_all_rows[2]>>

(***************************************************************************)
(* Properties of a repeated merge.                                         *)
(***************************************************************************)
\* a's and b's sort keys in scrape_all are equal
KeyTie(a, b) == ~KeyGreater(a, b) /\ ~KeyGreater(b, a)

\* sorted is src in descending key order with rows of equal keys in src's order:
\* the one sequence line 334 can produce from the mapping src
StableSortOf(sorted, src) ==
  /\ Len(sorted) = Len(src)
  /\ \A i \in 1..Len(sorted) :
       DictGet(src, sorted[i].url) # 0 /\ sorted[i] = src[DictGet(src, sorted[i].url)]
  /\ \A i \in 1..(Len(sorted) - 1) :
       /\ ~KeyGreater(sorted[i + 1], sorted[i])
       /\ KeyTie(sorted[i], sorted[i + 1]) =>
            DictGet(src, sorted[i].url) < DictGet(src, sorted[i + 1].url)

ReadsEntry == prog = "scraper" /\ pc \in {"hits_loop", "rating_loop"} /\ n' = n + 1

\* the position in rows_by_url of the record of the entry just read
ObservedRecord == DictGet(rows_by_url, Url(obs'.id))

\* C14: a record that a named entry of the hits-ordered listing created, with its
\* hits, and that has no rating and no votes yet, is then met by a nameless entry
\* of the same id with a rating and no votes: the mapping has the same records, and
\* that record keeps its names, type, url and hits, takes the rating and still has
\* no votes.
C14_NamelessRatingUpdatesRecord ==
  [][(/\ ReadsEntry /\ obs'.pass = "rating"
      /\ obs'.existed /\ ~obs'.named
      /\ obs'.rating # None /\ obs'.votes = None
      /\ rows_by_url[ObservedRecord].rating = None
      /\ rows_by_url[ObservedRecord].votes = None) =>
       /\ UniqueUrls(rows_by_url')
       /\ rows_by_url' = [rows_by_url EXCEPT ![ObservedRecord].rating = obs'.rating]
       /\ rows_by_url'[ObservedRecord].votes = None
       /\ rows_by_url'[ObservedRecord].hits = rows_by_url[ObservedRecord].hits]_vars

\* C14 witness: type tab; the record made with the greatest hits now carries the
\* rating of the nameless entry read last and no votes
C14_Witness ==
  /\ prog = "scraper" /\ pc = "rating_loop" /\ types[ti] = "tab"
  /\ obs.pass = "rating" /\ obs.existed /\ ~obs.named
  /\ obs.rating # None /\ obs.votes = None
  /\ Len(rows_by_url) = 1
  /\ rows_by_url[1] = Row("A", "S", "tab", Url(obs.id), MaxHits, obs.rating, None)

\* the cross-type loop of scrape_all folds a row of rows_for_type in this step
FoldsRow == prog = "scraper" /\ pc = "fold" /\ fi' = fi + 1

\* the row being folded, and the position in all_rows of the record of its url
FoldedRow == rows_by_url[fi + 1]
FoldedInto == DictGet(all_rows, FoldedRow.url)

\* the records of r are still in q, at their places, with their identity fields
KeepsIdentity(r, q) ==
  /\ Len(q) >= Len(r)
  /\ \A i \in 1..Len(r) :
       /\ r[i].artist = q[i].artist /\ r[i].song = q[i].song
       /\ r[i].type = q[i].type /\ r[i].url = q[i].url

\* C15: no entry read in either listing pass and no row folded across types
\* changes artist, song, type or url of a record the mapping already holds.
C15_IdentityIsFirstWrite ==
  [][/\ ReadsEntry => KeepsIdentity(rows_by_url, rows_by_url')
     /\ FoldsRow => KeepsIdentity(all_rows, all_rows')]_vars

\* C15 witness: the fold met, for a url all_rows held from the first type, a row
\* of the second type with another artist, and the record is as it was
C15_Witness ==
  /\ prog = "scraper" /\ pc = "fold" /\ ti = 2 /\ fi = 1
  /\ Len(all_rows) = 1 /\ all_rows[1].url = rows_by_url[1].url
  /\ all_rows[1].type = types[1] /\ rows_by_url[1].type = types[2]
  /\ all_rows[1].artist # rows_by_url[1].artist

\* the value a metric has after an observation gave v for it
Overwritten(old, v) == IF v # None THEN v ELSE old

\* no record of r has lost a rating or votes it had in q
NeverCleared(r, q) ==
  \A i \in 1..Len(r) :
    /\ r[i].rating # None => (Len(q) >= i /\ q[i].rating # None)
    /\ r[i].votes # None => (Len(q) >= i /\ q[i].votes # None)

\* C16: an entry of the rating-ordered listing, and a row folded across types,
\* that meets an existing record sets its rating (votes) to the value it carries
\* and leaves it alone when it carries none; no step clears a rating or votes.
C16_MetricsOverwrittenNeverCleared ==
  [][/\ (ReadsEntry /\ obs'.pass = "rating" /\ obs'.existed) =>
          /\ rows_by_url'[ObservedRecord].rating =
               Overwritten(rows_by_url[ObservedRecord].rating, obs'.rating)
          /\ rows_by_url'[ObservedRecord].votes =
               Overwritten(rows_by_url[ObservedRecord].votes, obs'.votes)
     /\ (FoldsRow /\ FoldedInto # 0) =>
          /\ all_rows'[FoldedInto].rating =
               Overwritten(all_rows[FoldedInto].rating, FoldedRow.rating)
          /\ all_rows'[FoldedInto].votes =
               Overwritten(all_rows[FoldedInto].votes, FoldedRow.votes)
     /\ ReadsEntry => NeverCleared(rows_by_url, rows_by_url')
     /\ FoldsRow => NeverCleared(all_rows, all_rows')]_vars

\* C16 witness: the fold met a record with a rating with a row without one, and
\* the record has its rating
C16_Witness ==
  /\ prog = "scraper" /\ pc = "fold" /\ ti = 2 /\ fi = 1
  /\ Len(all_rows) = 1 /\ all_rows[1].url = rows_by_url[1].url
  /\ all_rows[1].type = types[1]
  /\ all_rows[1].rating # None /\ rows_by_url[1].rating = None

\* no record of r has fewer hits in q
HitsNotLower(r, q) ==
  \A i \in 1..Len(r) : Len(q) >= i /\ q[i].hits >= r[i].hits

\* C17: no entry read in either listing pass and no row folded across types
\* lowers the hits of a record the mapping already holds.
C17_HitsNeverDecrease ==
  [][/\ ReadsEntry => HitsNotLower(rows_by_url, rows_by_url')
     /\ FoldsRow => HitsNotLower(all_rows, all_rows')]_vars

\* C17 witness: the fold met a record with a row of fewer, non-zero hits, and the
\* record has the hits it had
C17_Witness ==
  /\ prog = "scraper" /\ pc = "fold" /\ ti = 2 /\ fi = 1
  /\ Len(all_rows) = 1 /\ all_rows[1].url = rows_by_url[1].url
  /\ all_rows[1].type = types[1]
  /\ rows_by_url[1].hits > 0 /\ all_rows[1].hits > rows_by_url[1].hits

\* row j of all_rows is, of the rows of its url read so far, the first with the
\* greatest hits
FirstWithMostHits(j) ==
  \A k \in 1..mn :
    m_all_rows[k].url = m_all_rows[j].url =>
      /\ k < j => HitsOrZero(m_all_rows[k]) < HitsOrZero(m_all_rows[j])
      /\ k > j => HitsOrZero(m_all_rows[k]) <= HitsOrZero(m_all_rows[j])

\* C18: every row by_url keeps is, whole, a row of the input: of the rows of its
\* url read so far the first one with the greatest hits, so a later row takes the
\* place only with strictly more hits.
C18_KeptRowIsWholeInputRow ==
  prog = "merge_ug" =>
    \A i \in 1..Len(by_url) :
      \E j \in 1..mn : by_url[i] = m_all_rows[j] /\ FirstWithMostHits(j)

\* C18 witness: two rows of one url with equal hits and different artists were
\* read, and the first one is kept
C18_Witness ==
  /\ DedupDone /\ Len(m_all_rows) = 2
  /\ m_all_rows[1].url # None /\ m_all_rows[1].url = m_all_rows[2].url
  /\ m_all_rows[1].hits = Some(50) /\ m_all_rows[2].hits = Some(50)
  /\ m_all_rows[1].artist # m_all_rows[2].artist
  /\ by_url = <<m_all_rows[1]>>


\* the listing pages one call of scrape_all requests: two for each configured type
ListingFetches == 2 * Len(types)

\* this step requests a listing page
FetchesListing == fetched' = fetched + 1

\* this step changes a file: a directory entry, or the bytes of an inode
WritesFile == dir' # dir \/ disk' # disk

\* this step changes what CACHE_PATH names, or the bytes behind it
WritesCachePath ==
  dir'[CACHE_PATH] # dir[CACHE_PATH] \/ CacheContent(dir', disk') # CacheContent(dir, disk)

\* C19: in a call of scrape_all that goes on to fetch, the listing pages are
\* requested one per step, for type number ti the hits-ordered page and then the
\* rating-ordered page, in the order of types; no file is touched before every
\* listing page has been requested, CACHE_PATH changes only in the os.replace
\* of line 348, and a call that returns after fetching has made that
\* os.replace exactly once.
C19_FetchesThenOneWrite ==
  [][prog = "scraper" =>
       /\ fetched' \in {fetched, fetched + 1}
       /\ FetchesListing =>
            \/ pc = "hits_fetch" /\ fetched = 2 * (ti - 1)
            \/ pc = "rating_fetch" /\ fetched = 2 * (ti - 1) + 1
       /\ WritesFile => fetched = ListingFetches
       /\ WritesCachePath => pc = "replace" /\ commits = 0 /\ commits' = 1
       /\ commits' # commits => WritesCachePath
       /\ (pc' = "returned" /\ pc # "start") =>
            fetched' = ListingFetches /\ commits' = 1]_vars

\* C19 witness: a call over an existing snapshot fetched every listing page,
\* replaced the snapshot once and answered
C19_Witness ==
  /\ prog = "scraper" /\ pc = "done" /\ resp = 200
  /\ before # <<>> /\ CacheContent(dir, disk) # before
  /\ fetched = ListingFetches /\ commits = 1


\* C20: a call of scrape_all without force, made within MAX_AGE_HOURS of a call
\* that saved a snapshot, finds that snapshot fresh (the "scraped_at" written by
\* _now_iso parses to an aware instant), requests no listing page, leaves the
\* cache file as it was and returns what the saving call returned.
C20_SavedSnapshotIsReused ==
  (prog = "scraper" /\ calls > 1) =>
    /\ FromIsoFormat(ReplaceZ(CacheDoc.meta.scraped_at)).aware
    /\ CacheIsFresh(dir, disk, now, MAX_AGE_HOURS) = "True"
    /\ pc \in {"start", "returned", "done"}
    /\ fetched = 0 /\ commits = 0 /\ ~failed
    /\ CacheContent(dir, disk) = before
    /\ pc # "start" => ret = prev_ret /\ ret # None
    /\ pc = "done" => resp = 200

\* C20 witness: the second call came MAX_AGE_HOURS after the save and answered
\* with the saved snapshot
C20_Witness ==
  /\ prog = "scraper" /\ calls = 2 /\ pc = "done" /\ resp = 200
  /\ ret = prev_ret /\ ret # None
  /\ now - SnapshotInstant = MAX_AGE_HOURS
  /\ fetched = 0

====
